---- MODULE Spec2Model ----
(***************************************************************************)
(* A model of the Langfuse backend adapter                                 *)
(* (src/src/opentelemetry_mcp/backends/langfuse.py).                       *)
(*                                                                         *)
(* The adapter is a read-only query layer: every public method issues one  *)
(* or two remote calls through the Langfuse SDK client, converts the       *)
(* records it gets back and returns (or raises).  The state keeps the      *)
(* adapter's fields, the wall clock, and the record of the call being      *)
(* handled: its name, its argument, the remote calls it issued with the    *)
(* backend's answer to each, and how it ended.  The caller then takes the  *)
(* result (Deliver) and the adapter is idle again.                         *)
(*                                                                         *)
(* Spec handles one call at a time.  SpecConcurrent has several callers    *)
(* with calls in flight on the one adapter at once (flights), a call       *)
(* giving way to the others at each of its remote calls.                   *)
(*                                                                         *)
(* Encoding of Python values:                                              *)
(*   - an optional string is a string, NoneStr standing for None;          *)
(*   - an optional number or object is a sequence: <<>> for None, <<v>>    *)
(*     for the value v;                                                    *)
(*   - an attribute a record may lack carries Missing: reading it raises   *)
(*     AttributeError;                                                     *)
(*   - a list is a sequence; a dict with string keys is a function.        *)
(* Not carried by the model's records: timestamps of records, user_id,     *)
(* version and the free-form metadata mapping (they only add attribute     *)
(* keys to a span).                                                        *)
(***************************************************************************)
EXTENDS Integers, Sequences, FiniteSets, TLC

VARIABLES adapter, now, op, arg, calls, outcome, result, flights

vars == <<adapter, now, op, arg, calls, outcome, result, flights>>

---------------------------------------------------------------------------
(* Bounds of the model                                                     *)

\* Longest list of trace records the backend answers with, enumerated in full.
MaxRecords == 2
\* Longest list of observations the backend answers with.
MaxObs == 2
\* Size of the backend's store when it answers with as many records as asked.
BulkLen == 101
\* Last reading of the wall clock (in days).
MaxClock == 2
\* Callers with a call in flight on the one adapter at the same time.
NumCallers == 2

(* Program constants                                                       *)

\* min(query.limit, 100)
LangfuseMaxLimit == 100
\* timedelta(days=1)
DefaultWindowDays == 1
\* trace.list(limit=100) of list_services
ServicesLimit == 100
\* trace.list(name=service_name, limit=100) of get_service_operations
OperationsLimit == 100
\* trace.list(limit=1) of health_check
ProbeLimit == 1
\* (trace_item.latency or 0) * 1000
MsPerSecond == 1000

---------------------------------------------------------------------------
(* Python values                                                           *)

NoneStr == "<None>"
Missing == "<missing>"
Unset   == "<unset>"

\* x or default, for an optional string (None and "" are falsy)
OrStr(x, default) == IF x = NoneStr \/ x = "" THEN default ELSE x

Min(a, b) == IF a <= b THEN a ELSE b

\* The concatenation of a list of lists (by halves, to keep the nesting flat).
RECURSIVE Flatten(_)
Flatten(ss) ==
    IF ss = <<>> THEN <<>>
    ELSE IF Len(ss) = 1 THEN ss[1]
    ELSE Flatten(SubSeq(ss, 1, Len(ss) \div 2))
         \o Flatten(SubSeq(ss, Len(ss) \div 2 + 1, Len(ss)))

SeqsUpTo(S, n) == UNION {[1..k -> S] : k \in 0..n}

\* any(pred) over a sequence of spans
AnySpanError(spans) == \E i \in DOMAIN spans : spans[i].status = "ERROR"

---------------------------------------------------------------------------
(* Backend-native records (what the Langfuse SDK hands back)               *)

\* A trace record.  lat names the one latency attribute the record has
\* ("latency_ms", "latency" in seconds, "duration" in seconds, or "absent")
\* and its value, 0 standing for None as well (both are falsy).
TraceItem(id, name, session, level, latattr, latval, tags) ==
    [id |-> id, name |-> name, session_id |-> session, level |-> level,
     lat |-> [attr |-> latattr, val |-> latval], tags |-> tags]

TraceRecords ==
    { TraceItem("t1", "web",     "s1",    "DEFAULT", "latency_ms", 5,  <<"a">>),
      TraceItem("t2", "api",     NoneStr, "ERROR",   "latency_ms", 0,  <<>>),
      TraceItem("t3", NoneStr,   "s2",    "WARNING", "latency_ms", 20, <<"b">>),
      TraceItem("t4", "web",     "s1",    NoneStr,   "latency",    2,  <<>>),
      TraceItem("t5", "web-api", "s1",    Missing,   "latency_ms", 7,  <<"a">>),
      TraceItem("t6", "api",     "s2",    "DEBUG",   "latency_ms", 3,  <<>>),
      TraceItem("t7", "web",     NoneStr, "DEFAULT", "duration",   1,  <<>>) }

TraceIds == {r.id : r \in TraceRecords} \cup {"t0"}

Rec(id) == CHOOSE r \in TraceRecords : r.id = id

\* The record the bulk answer repeats.
BulkRecord == Rec("t1")

\* Longer answers with one record that does not convert among valid ones.
SampleLists ==
    { << Rec("t1"), Rec("t5"), Rec("t2") >>,
      << Rec("t6"), Rec("t3"), Rec("t2"), Rec("t5") >>,
      << Rec("t4"), Rec("t3"), Rec("t1"), Rec("t6") >> }

\* An observation.  svc is metadata["service.name"], "" when the observation
\* has no metadata.
Observation(id, name, type, level, parent, latval, svc) ==
    [id |-> id, name |-> name, type |-> type, level |-> level,
     parent_observation_id |-> parent, latency_ms |-> latval, svc |-> svc]

Observations ==
    { Observation("o1", "root", "span",       "DEFAULT", NoneStr, 4, "web"),
      Observation("o2", "llm",  "generation", "ERROR",   "o1",    0, ""),
      Observation("o3", "tool", "span",       Missing,   NoneStr, 1, "web"),
      Observation("o4", "sub",  "event",      "DEBUG",   "o3",    2, "") }

\* Exceptions the SDK raises for a failed remote call.
BackendErrors == {"NotFoundError", "ApiError"}

---------------------------------------------------------------------------
(* Record conversion                                                       *)

\* _langfuse_level_to_status
langfuse_level_to_status(level) ==
    IF level = "ERROR" THEN "ERROR"
    ELSE IF level \in {"DEFAULT", "WARNING"} THEN "OK"
    ELSE "UNSET"

\* _determine_trace_status that never looks at the child spans
determine_trace_status_level_only(level, spans) ==
    IF level = "ERROR" THEN "ERROR"
    ELSE IF level \in {"WARNING", "DEFAULT"} THEN "OK"
    ELSE "UNSET"

\* _determine_trace_status, on the value of trace_item.level
determine_trace_status(level, spans) ==
    IF level = "ERROR" THEN "ERROR"
    ELSE IF level = "WARNING" THEN (IF AnySpanError(spans) THEN "ERROR" ELSE "OK")
    ELSE IF level = "DEFAULT" THEN (IF AnySpanError(spans) THEN "ERROR" ELSE "OK")
    ELSE "UNSET"

\* raw_attrs of _create_span_from_trace_metadata: the fixed keys, then one
\* "tag.<tag>" key per tag
TagAttrs(tags) ==
    [k \in {"tag." \o tags[i] : i \in DOMAIN tags} |-> "true"]

trace_metadata_attrs(item) ==
    TagAttrs(item.tags)
    @@ [k \in {"service.name", "langfuse.trace.id", "langfuse.trace.session_id"} |->
          IF k = "service.name" THEN OrStr(item.name, "")
          ELSE IF k = "langfuse.trace.id" THEN item.id
          ELSE OrStr(item.session_id, "")]

\* _create_span_from_trace_metadata raises AttributeError when it reads an
\* attribute the record lacks: trace_item.latency_ms (line 445) or
\* trace_item.level (line 446)
create_span_raises(item) ==
    item.lat.attr # "latency_ms" \/ item.level = Missing

\* _create_span_from_trace_metadata, when it does not raise
create_span_from_trace_metadata(item) ==
    [trace_id       |-> item.id,
     span_id        |-> item.id,
     parent_span_id |-> NoneStr,
     operation_name |-> OrStr(item.name, "unknown"),
     service_name   |-> OrStr(item.name, "unknown"),
     duration_ms    |-> item.lat.val,
     status         |-> langfuse_level_to_status(item.level),
     attributes     |-> trace_metadata_attrs(item)]

observation_attrs(obs) ==
    [k \in {"service.name", "langfuse.observation.id",
            "langfuse.observation.type", "langfuse.observation.name"} |->
        IF k = "service.name" THEN obs.svc
        ELSE IF k = "langfuse.observation.id" THEN obs.id
        ELSE IF k = "langfuse.observation.type" THEN obs.type
        ELSE obs.name]

\* _convert_langfuse_observation_to_span: None (<<>>) when reading the
\* observation raises, which its except clause swallows
convert_langfuse_observation_to_span(trace_id, obs) ==
    IF obs.level = Missing THEN <<>>
    ELSE << [trace_id       |-> trace_id,
             span_id        |-> obs.id,
             parent_span_id |-> obs.parent_observation_id,
             operation_name |-> obs.name,
             service_name   |-> obs.svc,
             duration_ms    |-> obs.latency_ms,
             status         |-> langfuse_level_to_status(obs.level),
             attributes     |-> observation_attrs(obs)] >>

\* the loop of lines 368-375: the spans of the observations that converted
convert_observations(trace_id, observations) ==
    Flatten([i \in DOMAIN observations |->
               convert_langfuse_observation_to_span(trace_id, observations[i])])

\* lines 386-392: the hasattr chain
trace_latency_ms(item) ==
    IF item.lat.attr = "latency_ms" THEN item.lat.val
    ELSE IF item.lat.attr \in {"latency", "duration"} THEN item.lat.val * MsPerSecond
    ELSE 0

\* whether the record falls back to the span synthesized from its metadata:
\* no observations given (None or an empty list), or none of them converted
uses_metadata_span(item, observations) ==
    observations = <<>> \/ convert_observations(item.id, observations) = <<>>

\* trace_spans without the fallback of lines 377-379: the metadata span is
\* used only when no observations were given
trace_spans_no_fallback(item, observations) ==
    IF observations = <<>>
    THEN << create_span_from_trace_metadata(item) >>
    ELSE convert_observations(item.id, observations)

\* the spans of lines 362-379, when nothing raised
trace_spans(item, observations) ==
    IF uses_metadata_span(item, observations)
    THEN << create_span_from_trace_metadata(item) >>
    ELSE convert_observations(item.id, observations)

\* whether the try block of _convert_langfuse_trace_to_trace raises
convert_trace_raises(item, observations) ==
    \/ uses_metadata_span(item, observations) /\ create_span_raises(item)
    \/ item.level = Missing

\* _convert_langfuse_trace_to_trace: <<>> is None (the except clause), <<td>>
\* the TraceData.  observations = <<>> stands for None and for [] alike.
convert_langfuse_trace_to_trace(item, observations) ==
    IF convert_trace_raises(item, observations) THEN <<>>
    ELSE << [trace_id       |-> item.id,
             spans          |-> trace_spans(item, observations),
             duration_ms    |-> trace_latency_ms(item),
             service_name   |-> OrStr(item.name, "unknown"),
             root_operation |-> OrStr(item.session_id, OrStr(item.name, "unknown")),
             status         |-> determine_trace_status(item.level,
                                    trace_spans(item, observations))] >>

\* convert_all where one record that fails to convert empties the batch
convert_all_or_nothing(items) ==
    IF \E i \in DOMAIN items : convert_trace_raises(items[i], <<>>)
    THEN <<>>
    ELSE Flatten([i \in DOMAIN items |-> convert_langfuse_trace_to_trace(items[i], <<>>)])

\* lines 167-171: convert each record, keep the ones that converted
convert_all(items) ==
    Flatten([i \in DOMAIN items |-> convert_langfuse_trace_to_trace(items[i], <<>>)])

---------------------------------------------------------------------------
(* Queries and filters (opentelemetry_mcp.models)                          *)

\* A filter value: a string or a number, tagged with which.
Str(s) == [t |-> "str", s |-> s, n |-> 0]
Num(n) == [t |-> "num", s |-> "", n |-> n]

Filter(field, operator, type, value) ==
    [field |-> field, operator |-> operator, type |-> type, value |-> value]

\* dict.keys() of the tags mapping, kept as a list of <<key, value>> pairs
\* in insertion order
TagKeys(tags) == [i \in DOMAIN tags |-> tags[i][1]]

\* TraceQuery.get_all_filters / SpanQuery.get_all_filters: the structured
\* shortcuts (service, operation, tags) as EQUALS filters, then the explicit
\* filters
get_all_filters(query) ==
    (IF query.service_name # NoneStr
       THEN << Filter("service_name", "equals", "string", Str(query.service_name)) >>
       ELSE <<>>)
    \o (IF query.operation_name # NoneStr
       THEN << Filter("operation_name", "equals", "string", Str(query.operation_name)) >>
       ELSE <<>>)
    \o [i \in DOMAIN query.tags |->
          Filter(query.tags[i][1], "equals", "string", Str(query.tags[i][2]))]
    \o query.filters

\* TraceQuery(service_name=..., operation_name=..., start_time=..., end_time=...,
\* limit=...): the other fields keep their defaults
TraceQuery(service_name, operation_name, start_time, end_time, limit) ==
    [service_name |-> service_name, operation_name |-> operation_name,
     start_time |-> start_time, end_time |-> end_time, limit |-> limit,
     tags |-> <<>>, filters |-> <<>>]

---------------------------------------------------------------------------
(* Filter Engine (opentelemetry_mcp.backends.filter_engine)                *)

WellKnownFields ==
    {"trace_id", "span_id", "service_name", "operation_name", "root_operation",
     "status", "duration_ms"}

\* The value of a field of a trace or span: a well-known field is read off
\* the entity, any other field off its attribute mapping; found is FALSE
\* when neither has it.
Resolve(entity, field) ==
    IF field \in WellKnownFields /\ field \in DOMAIN entity
    THEN [found |-> TRUE,
          val |-> IF field = "duration_ms" THEN Num(entity[field]) ELSE Str(entity[field])]
    ELSE IF "attributes" \in DOMAIN entity /\ field \in DOMAIN entity.attributes
    THEN [found |-> TRUE, val |-> Str(entity.attributes[field])]
    ELSE [found |-> FALSE, val |-> Str("")]

\* The pieces a string of the model can start or end with.
Affixes == {"", "web", "-api", "web-", "api", "-", "w", "eb", "a", "pi"}

\* a in b, for strings
IsSubstring(a, b) == \E p \in Affixes, q \in Affixes : p \o a \o q = b

\* both sides coerced to the filter's declared type; a value that is not of
\* that type and cannot be coerced does not match
AsString(v) == IF v.t = "num" THEN ToString(v.n) ELSE v.s

Compare(operator, type, resolved, value) ==
    IF operator = "equals"
      THEN IF type = "number"
           THEN resolved.t = "num" /\ value.t = "num" /\ resolved.n = value.n
           ELSE AsString(resolved) = AsString(value)
    ELSE IF operator = "not_equals"
      THEN IF type = "number"
           THEN resolved.t = "num" /\ value.t = "num" /\ resolved.n # value.n
           ELSE AsString(resolved) # AsString(value)
    ELSE IF operator = "contains"
      THEN IsSubstring(AsString(value), AsString(resolved))
    ELSE IF operator = "gt"
      THEN resolved.t = "num" /\ value.t = "num" /\ resolved.n > value.n
    ELSE IF operator = "lt"
      THEN resolved.t = "num" /\ value.t = "num" /\ resolved.n < value.n
    ELSE FALSE

\* one filter against one entity: an unresolved field is no match
Matches(entity, f) ==
    /\ Resolve(entity, f.field).found
    /\ Compare(f.operator, f.type, Resolve(entity, f.field).val, f.value)

MatchesAll(entity, filters) ==
    \A i \in DOMAIN filters : Matches(entity, filters[i])

\* FilterEngine.apply_filters: the items that match every filter, in order
apply_filters(items, filters) ==
    SelectSeq(items, LAMBDA e : MatchesAll(e, filters))

---------------------------------------------------------------------------
(* Remote calls (the Langfuse SDK client)                                  *)

\* Keyword arguments of api.trace.list; Unset / <<>> is a key not passed.
ListParams(name, session_id, from_timestamp, to_timestamp, limit, tag) ==
    [name |-> name, session_id |-> session_id, from_timestamp |-> from_timestamp,
     to_timestamp |-> to_timestamp, limit |-> limit, tag |-> tag]

NoParams == ListParams(Unset, Unset, <<>>, <<>>, <<>>, Unset)

\* The backend's answer to one call: data on success, the exception raised
\* otherwise.
Success(data) == [ok |-> TRUE, err |-> NoneStr, data |-> data]
Failure(err)  == [ok |-> FALSE, err |-> err, data |-> <<>>]

\* One remote call as issued, with the answer it got.
Call(api, params, trace_id, answer) ==
    [api |-> api, params |-> params, trace_id |-> trace_id, answer |-> answer]

\* The answers api.trace.list can give to a call asking for at most limit
\* records: a failure, any short list, a sample longer list, or as many
\* copies of one record as asked for (the store holds BulkLen of them).
\* The backend honours limit.
ListAnswers(limit) ==
    {Failure(e) : e \in BackendErrors}
    \cup {Success(d) : d \in SeqsUpTo(TraceRecords, Min(MaxRecords, limit))}
    \cup {Success(d) : d \in {x \in SampleLists : MaxRecords < Len(x) /\ Len(x) <= limit}}
    \cup (IF limit > MaxRecords
            THEN {Success([i \in 1..Min(limit, BulkLen) |-> BulkRecord])}
            ELSE {})

\* The answers api.trace.get can give for an id: the record of that id, or
\* a failure (NotFoundError when the backend has no such record).
GetAnswers(trace_id) ==
    {Success(<<r>>) : r \in {x \in TraceRecords : x.id = trace_id}}
    \cup {Failure("NotFoundError")}
    \cup (IF \E x \in TraceRecords : x.id = trace_id THEN {Failure("ApiError")} ELSE {})

\* The answers api.observations.get_many can give.
ObservationAnswers ==
    {Failure("ApiError")} \cup {Success(d) : d \in SeqsUpTo(Observations, MaxObs)}

---------------------------------------------------------------------------
(* LangfuseBackend                                                         *)

\* get_supported_operators
get_supported_operators == {"equals", "not_equals", "contains"}

\* client_filters with the operator test inverted: the supported operators
\* are the ones kept for client-side evaluation
client_filters_inverted(all_filters) ==
    SelectSeq(all_filters, LAMBDA f : f.operator \in get_supported_operators)

\* line 176: the filters search_traces evaluates client-side
client_filters(all_filters) ==
    SelectSeq(all_filters, LAMBDA f : f.operator \notin get_supported_operators)

\* clamp_limit that passes the query's limit on unchanged
clamp_limit_unclamped(limit) == limit

\* line 146
clamp_limit(limit) == Min(limit, LangfuseMaxLimit)

\* search_params without the default window: no from_timestamp unless the
\* query gives a start_time
search_params_unbounded(query, clock) ==
    ListParams(
        OrStr(query.service_name, Unset),
        OrStr(query.operation_name, Unset),
        query.start_time,
        query.end_time,
        << clamp_limit(query.limit) >>,
        IF query.tags # <<>> THEN TagKeys(query.tags)[1] ELSE Unset)

\* lines 126-154: the keyword arguments search_traces builds, clock being
\* datetime.now()
search_params(query, clock) ==
    ListParams(
        OrStr(query.service_name, Unset),
        OrStr(query.operation_name, Unset),
        IF query.start_time # <<>> THEN query.start_time
                                   ELSE << clock - DefaultWindowDays >>,
        query.end_time,
        << clamp_limit(query.limit) >>,
        IF query.tags # <<>> THEN TagKeys(query.tags)[1] ELSE Unset)

\* lines 166-185: what search_traces returns for the records it was given
search_traces_result(query, data) ==
    IF client_filters(get_all_filters(query)) # <<>>
    THEN apply_filters(convert_all(data), client_filters(get_all_filters(query)))
    ELSE convert_all(data)

\* span_trace_query handing the span query itself to search_traces, tags and
\* filters included
span_trace_query_whole(query) == query

\* lines 206-214: the TraceQuery search_spans hands to search_traces
span_trace_query(query) ==
    TraceQuery(query.service_name, query.operation_name, query.start_time,
               query.end_time, query.limit)

\* lines 217-219
flatten_spans(traces) == Flatten([i \in DOMAIN traces |-> traces[i].spans])

\* lines 216-226: what search_spans returns for the traces search_traces gave
search_spans_result(query, traces) ==
    IF get_all_filters(query) # <<>>
    THEN apply_filters(flatten_spans(traces), get_all_filters(query))
    ELSE flatten_spans(traces)

\* sorted(list(names)), over the names of the model
NameOrder == <<"api", "s1", "s2", "web", "web-api">>

Sorted(S) == SelectSeq(NameOrder, LAMBDA n : n \in S)

\* lines 274-279
service_names(traces) ==
    Sorted({traces[i].name : i \in {j \in DOMAIN traces : OrStr(traces[j].name, "") # ""}})

\* lines 309-314
operation_names(traces) ==
    Sorted({traces[i].session_id :
              i \in {j \in DOMAIN traces : OrStr(traces[j].session_id, "") # ""}})

\* HealthCheckResponse; error is None unless given
HealthCheckResponse(status, backend, url, error) ==
    [status |-> status, backend |-> backend, url |-> url, error |-> error]

\* health_check_result that reports healthy whatever the probe did
health_check_result_always_healthy(answer, url) ==
    HealthCheckResponse("healthy", "langfuse", url, NoneStr)

\* lines 326-344: the response of health_check for the probe's answer;
\* error is str(e)
health_check_result(answer, url) ==
    IF answer.ok
    THEN HealthCheckResponse("healthy", "langfuse", url, NoneStr)
    ELSE HealthCheckResponse("unhealthy", "langfuse", url, answer.err)

---------------------------------------------------------------------------
(* Inputs                                                                  *)

QueryLimits == {1, 2, 100, 101, 500}

QueryWindows == { << <<>>, <<>> >>, << <<1>>, <<>> >>, << <<1>>, <<3>> >> }

QueryTags == { <<>>, << <<"a", "true">>, <<"env", "prod">> >> }

QueryFilters ==
    { <<>>,
      << Filter("duration_ms", "gt", "number", Num(4)) >>,
      << Filter("status", "equals", "string", Str("ERROR")) >>,
      << Filter("service_name", "contains", "string", Str("web")),
         Filter("duration_ms", "lt", "number", Num(10)) >> }

\* TraceQuery and SpanQuery values
Queries ==
    { [service_name |-> sn, operation_name |-> on, start_time |-> w[1],
       end_time |-> w[2], limit |-> l, tags |-> tg, filters |-> fs] :
        sn \in {NoneStr, "web"}, on \in {NoneStr, "s1"}, w \in QueryWindows,
        l \in QueryLimits, tg \in QueryTags, fs \in QueryFilters }

ServiceNames == {"web", "api"}

---------------------------------------------------------------------------
(* The state machine                                                       *)

\* A caller's call in flight: where it stands (idle, waiting for the answer
\* to its last remote call, done), the operation and its argument, the
\* remote calls it issued so far and how it ended.
Flight(pc, name, argument, issued, ending, value) ==
    [pc |-> pc, op |-> name, arg |-> argument, calls |-> issued,
     outcome |-> ending, result |-> value]

IdleFlight == Flight("idle", "idle", NoneStr, <<>>, "none", <<>>)

\* __init__ with both keys given: the fields it stores and the one client
\* it creates; url is the argument with trailing slashes stripped
Init ==
    /\ adapter = [url |-> "https://cloud.langfuse.com", public_key |-> "pk-lf-1",
                  secret_key |-> "sk-lf-1", api_key |-> "sk-lf-1", timeout |-> 30,
                  client |-> "Langfuse#1"]
    /\ now = DefaultWindowDays
    /\ op = "idle"
    /\ arg = NoneStr
    /\ calls = <<>>
    /\ outcome = "none"
    /\ result = <<>>
    /\ flights = [p \in 1..NumCallers |-> IdleFlight]

\* The wall clock advances.
Tick ==
    /\ op = "idle"
    /\ now < MaxClock
    /\ now' = now + 1
    /\ UNCHANGED <<adapter, op, arg, calls, outcome, result, flights>>

\* Ends with the failure masked: a failed call ends in an empty result
EndsMasked(answer, value) ==
    /\ outcome' = "return"
    /\ result' = IF answer.ok THEN value ELSE <<>>

\* How a call that issued one remote call ends: the exception of a failed
\* call propagates (except: ... raise), otherwise value is returned.
Ends(answer, value) ==
    /\ outcome' = IF answer.ok THEN "return" ELSE answer.err
    /\ result' = IF answer.ok THEN value ELSE <<>>

search_traces ==
    /\ op = "idle"
    /\ \E query \in Queries :
      \E answer \in ListAnswers(search_params(query, now).limit[1]) :
        /\ op' = "search_traces"
        /\ arg' = query
        /\ calls' = << Call("trace.list", search_params(query, now), Unset, answer) >>
        /\ Ends(answer, search_traces_result(query, answer.data))
        /\ UNCHANGED <<adapter, now, flights>>

search_spans ==
    /\ op = "idle"
    /\ \E query \in Queries :
      \E answer \in ListAnswers(search_params(span_trace_query(query), now).limit[1]) :
        /\ op' = "search_spans"
        /\ arg' = query
        /\ calls' = << Call("trace.list", search_params(span_trace_query(query), now),
                            Unset, answer) >>
        /\ Ends(answer,
                search_spans_result(query,
                    search_traces_result(span_trace_query(query), answer.data)))
        /\ UNCHANGED <<adapter, now, flights>>

\* get_trace: trace.get, then observations.get_many, then the conversion;
\* an exception of either call leaves the try block at once
get_trace ==
    /\ op = "idle"
    /\ \E trace_id \in TraceIds :
      \E got \in GetAnswers(trace_id), obs \in ObservationAnswers :
        /\ op' = "get_trace"
        /\ arg' = trace_id
        /\ calls' = IF got.ok
                    THEN << Call("trace.get", NoParams, trace_id, got),
                            Call("observations.get_many", NoParams, trace_id, obs) >>
                    ELSE << Call("trace.get", NoParams, trace_id, got) >>
        /\ IF got.ok
           THEN Ends(obs, convert_langfuse_trace_to_trace(got.data[1], obs.data))
           ELSE Ends(got, <<>>)
        /\ UNCHANGED <<adapter, now, flights>>

list_services ==
    /\ op = "idle"
    /\ \E answer \in ListAnswers(ServicesLimit) :
        /\ op' = "list_services"
        /\ arg' = NoneStr
        /\ calls' = << Call("trace.list",
                            ListParams(Unset, Unset, <<>>, <<>>, <<ServicesLimit>>, Unset),
                            Unset, answer) >>
        /\ Ends(answer, service_names(answer.data))
        /\ UNCHANGED <<adapter, now, flights>>

get_service_operations ==
    /\ op = "idle"
    /\ \E service_name \in ServiceNames :
      \E answer \in ListAnswers(OperationsLimit) :
        /\ op' = "get_service_operations"
        /\ arg' = service_name
        /\ calls' = << Call("trace.list",
                            ListParams(service_name, Unset, <<>>, <<>>,
                                       <<OperationsLimit>>, Unset),
                            Unset, answer) >>
        /\ Ends(answer, operation_names(answer.data))
        /\ UNCHANGED <<adapter, now, flights>>

\* health_check: both branches return a HealthCheckResponse; the exception
\* of the probe is caught and its text kept in error
health_check ==
    /\ op = "idle"
    /\ \E answer \in ListAnswers(ProbeLimit) :
        /\ op' = "health_check"
        /\ arg' = NoneStr
        /\ calls' = << Call("trace.list",
                            ListParams(Unset, Unset, <<>>, <<>>, <<ProbeLimit>>, Unset),
                            Unset, answer) >>
        /\ outcome' = "return"
        /\ result' = health_check_result(answer, adapter.url)
        /\ UNCHANGED <<adapter, now, flights>>

\* The caller takes the result or the exception of the call that ended.
Deliver ==
    /\ op # "idle"
    /\ op' = "idle"
    /\ arg' = NoneStr
    /\ calls' = <<>>
    /\ outcome' = "none"
    /\ result' = <<>>
    /\ UNCHANGED <<adapter, now, flights>>

Next ==
    \/ Tick
    \/ Deliver
    \/ search_traces
    \/ search_spans
    \/ get_trace
    \/ list_services
    \/ get_service_operations
    \/ health_check

Spec == Init /\ [][Next]_vars

---------------------------------------------------------------------------
(* Several calls in flight on one adapter                                  *)
(*                                                                         *)
(* The handlers are coroutines of one adapter object.  A call gives way    *)
(* to the other callers at most where it calls the backend, so a call in   *)
(* flight is taken in steps: Begin runs it up to its first remote call,    *)
(* Receive takes the answer of the call it waits for and runs it on to     *)
(* its next remote call or to its end, Take hands the result over.         *)

\* The answer of a remote call that has not come back yet.
Pending == [ok |-> FALSE, err |-> "<pending>", data |-> <<>>]

Operations ==
    {"search_traces", "search_spans", "get_trace", "list_services",
     "get_service_operations", "health_check"}

\* The arguments the callers pass to an operation.
Arguments(name) ==
    CASE name = "search_traces" ->
           { [TraceQuery("web", NoneStr, <<>>, <<>>, 2) EXCEPT
                 !.filters = << Filter("duration_ms", "gt", "number", Num(4)) >>],
             TraceQuery(NoneStr, "s1", <<1>>, <<>>, 100) }
      [] name = "search_spans" ->
           { [TraceQuery(NoneStr, NoneStr, <<>>, <<>>, 2) EXCEPT
                 !.filters = << Filter("status", "equals", "string", Str("ERROR")) >>] }
      [] name = "get_trace" -> {"t1", "t0"}
      [] name = "get_service_operations" -> {"web"}
      [] OTHER -> {NoneStr}

\* The handler up to its first remote call: the call it issues.
first_call(name, argument, clock) ==
    CASE name = "search_traces" ->
           Call("trace.list", search_params(argument, clock), Unset, Pending)
      [] name = "search_spans" ->
           Call("trace.list", search_params(span_trace_query(argument), clock),
                Unset, Pending)
      [] name = "get_trace" -> Call("trace.get", NoParams, argument, Pending)
      [] name = "list_services" ->
           Call("trace.list",
                ListParams(Unset, Unset, <<>>, <<>>, <<ServicesLimit>>, Unset),
                Unset, Pending)
      [] name = "get_service_operations" ->
           Call("trace.list",
                ListParams(argument, Unset, <<>>, <<>>, <<OperationsLimit>>, Unset),
                Unset, Pending)
      [] name = "health_check" ->
           Call("trace.list",
                ListParams(Unset, Unset, <<>>, <<>>, <<ProbeLimit>>, Unset),
                Unset, Pending)

\* The answers the backend can give to a call in flight (it honours limit).
FlightAnswers(call) ==
    CASE call.api = "trace.list" ->
           {Failure("ApiError")}
           \cup {Success(d) : d \in {x \in { <<>>, << Rec("t1") >>,
                                             << Rec("t1"), Rec("t2") >>,
                                             << Rec("t5"), Rec("t3") >> } :
                                       Len(x) <= call.params.limit[1]}}
      [] call.api = "trace.get" -> GetAnswers(call.trace_id)
      [] call.api = "observations.get_many" ->
           {Failure("ApiError")}
           \cup {Success(d) : d \in { <<>>,
                    << Observation("o1", "root", "span", "DEFAULT", NoneStr, 4, "web"),
                       Observation("o2", "llm", "generation", "ERROR", "o1", 0, "") >>,
                    << Observation("o3", "tool", "span", Missing, NoneStr, 1, "web"),
                       Observation("o4", "sub", "event", "DEBUG", "o3", 2, "") >> }}

\* The call caller p waits for, answered.
Answered(fs, p, answer) ==
    [fs EXCEPT ![p].calls[Len(fs[p].calls)].answer = answer]

\* A handler that kept the response of trace.list on the adapter instead of
\* in a local: it reads the response another caller's trace.list got.
handler_response_shared(fs, p) ==
    LET last(q) == fs[q].calls[Len(fs[q].calls)]
        others == {q \in DOMAIN fs \ {p} :
                      /\ fs[q].calls # <<>>
                      /\ last(q).api = "trace.list"
                      /\ last(q).answer # Pending}
    IN  IF last(p).api = "trace.list" /\ others # {}
        THEN last(CHOOSE q \in others : TRUE).answer
        ELSE last(p).answer

\* response = self._langfuse_client.api...(...): the response is a local of
\* the handler, the answer to the call this handler issued.
handler_response(fs, p) == fs[p].calls[Len(fs[p].calls)].answer

\* The handler of flight f from the response of its last remote call to its
\* next remote call or to its end.
resume(f, response, url) ==
    LET ended(value) ==
            [f EXCEPT !.pc = "done",
                      !.outcome = IF response.ok THEN "return" ELSE response.err,
                      !.result = IF response.ok THEN value ELSE <<>>]
    IN  CASE f.op = "search_traces" ->
               ended(search_traces_result(f.arg, response.data))
          [] f.op = "search_spans" ->
               ended(search_spans_result(f.arg,
                        search_traces_result(span_trace_query(f.arg), response.data)))
          [] f.op = "get_trace" /\ Len(f.calls) = 1 ->
               IF response.ok
               THEN [f EXCEPT !.calls =
                        Append(@, Call("observations.get_many", NoParams, f.arg, Pending))]
               ELSE ended(<<>>)
          [] f.op = "get_trace" /\ Len(f.calls) = 2 ->
               ended(convert_langfuse_trace_to_trace(f.calls[1].answer.data[1],
                                                     response.data))
          [] f.op = "list_services" -> ended(service_names(response.data))
          [] f.op = "get_service_operations" -> ended(operation_names(response.data))
          [] f.op = "health_check" ->
               [f EXCEPT !.pc = "done", !.outcome = "return",
                         !.result = health_check_result(response, url)]

\* Caller p calls an operation; the handler runs up to its first remote call.
Begin(p) ==
    /\ flights[p].pc = "idle"
    /\ \E name \in Operations : \E argument \in Arguments(name) :
         flights' = [flights EXCEPT ![p] =
                        Flight("waiting", name, argument,
                               << first_call(name, argument, now) >>, "none", <<>>)]
    /\ UNCHANGED <<adapter, now, op, arg, calls, outcome, result>>

\* The remote call caller p waits for comes back; the handler runs on.
Receive(p) ==
    /\ flights[p].pc = "waiting"
    /\ \E answer \in FlightAnswers(flights[p].calls[Len(flights[p].calls)]) :
         LET fs == Answered(flights, p, answer)
         IN  flights' = [fs EXCEPT ![p] =
                            resume(fs[p], handler_response(fs, p), adapter.url)]
    /\ UNCHANGED <<adapter, now, op, arg, calls, outcome, result>>

\* Caller p takes the result or the exception of its call.
Take(p) ==
    /\ flights[p].pc = "done"
    /\ flights' = [flights EXCEPT ![p] = IdleFlight]
    /\ UNCHANGED <<adapter, now, op, arg, calls, outcome, result>>

NextConcurrent ==
    \E p \in 1..NumCallers : Begin(p) \/ Receive(p) \/ Take(p)

SpecConcurrent == Init /\ [][NextConcurrent]_vars

---------------------------------------------------------------------------
(* Claims                                                                  *)

Returned(name) == op = name /\ outcome = "return"

\* The records the backend answered search_traces or search_spans with.
ListedRecords == calls[1].answer.data

\* C1: every filter of the query whose operator is not a supported operator
\* is evaluated client-side: each trace search_traces returns matches every
\* such filter, whatever the backend answered.
C1_UnsupportedOperatorsEnforced ==
    Returned("search_traces") =>
        \A i \in DOMAIN result : \A j \in DOMAIN get_all_filters(arg) :
            get_all_filters(arg)[j].operator \notin {"equals", "not_equals", "contains"}
                => Matches(result[i], get_all_filters(arg)[j])

\* C1 witness: the query carries a filter with an unsupported operator, the
\* backend ignored it (a converted record does not match), and search_traces
\* returned some but not all of the converted traces.
C1_Witness ==
    /\ Returned("search_traces")
    /\ \E j \in DOMAIN arg.filters : arg.filters[j].operator = "gt"
    /\ result # <<>>
    /\ Len(result) < Len(convert_all(ListedRecords))

\* The filters of a query that search_traces gives no native parameter: the
\* tags after the first, and the explicit filters (service_name goes to name,
\* operation_name to session_id, the first tag key to tag).
UntranslatedFilters(query) ==
    [i \in 1..(Len(query.tags) - 1) |->
        Filter(query.tags[i + 1][1], "equals", "string", Str(query.tags[i + 1][2]))]
    \o query.filters

\* C2 (as claimed): every filter of the query that is not translated into a
\* native parameter is evaluated client-side, so each trace search_traces
\* returns matches it, supported operator or not.
C2_UntranslatedFiltersEnforced ==
    Returned("search_traces") =>
        \A i \in DOMAIN result : MatchesAll(result[i], UntranslatedFilters(arg))

\* C3: search_spans returns exactly the spans of the traces that
\* search_traces returns for the TraceQuery with the same service_name,
\* operation_name, start_time, end_time and limit (one remote call, with that
\* query's parameters), flattened in trace order and kept when they match
\* every filter of the span query; each returned span is a span of one of
\* those traces.
C3_SearchSpansComposition ==
    Returned("search_spans") =>
        LET tq == [service_name |-> arg.service_name,
                   operation_name |-> arg.operation_name,
                   start_time |-> arg.start_time, end_time |-> arg.end_time,
                   limit |-> arg.limit, tags |-> <<>>, filters |-> <<>>]
            traces == search_traces_result(tq, ListedRecords)
            spans == Flatten([k \in DOMAIN traces |-> traces[k].spans])
        IN  /\ Len(calls) = 1
            /\ calls[1].api = "trace.list"
            /\ calls[1].params = search_params(tq, now)
            /\ result = SelectSeq(spans,
                            LAMBDA sp : \A j \in DOMAIN get_all_filters(arg) :
                                            Matches(sp, get_all_filters(arg)[j]))
            /\ \A i \in DOMAIN result :
                 \E k \in DOMAIN traces : \E m \in DOMAIN traces[k].spans :
                     traces[k].spans[m] = result[i]

\* C3 witness: search_spans with explicit filters returned some but not all
\* of the spans of the traces found.
C3_Witness ==
    /\ Returned("search_spans")
    /\ arg.filters # <<>>
    /\ arg.tags = <<>>
    /\ result # <<>>
    /\ Len(result) < Len(flatten_spans(convert_all(ListedRecords)))


\* The record and the observations the backend answered get_trace with.
FetchedRecord == calls[1].answer.data[1]
FetchedObservations == calls[2].answer.data

\* C4: the status of a converted trace is decided by the record's level and
\* the statuses of its spans alone: level ERROR gives ERROR whatever the
\* spans; DEFAULT and WARNING alike give ERROR when some span is ERROR and OK
\* when none is; any other level value with no span in ERROR gives UNSET; the
\* status is one of OK, ERROR, UNSET, and deriving it does not make the
\* conversion fail (a record that has a level, with a usable observation,
\* converts).
C4_TraceStatusDerivation ==
    Returned("get_trace") =>
        /\ (FetchedRecord.level # Missing
              /\ \E i \in DOMAIN FetchedObservations :
                     FetchedObservations[i].level # Missing)
             => result # <<>>
        /\ result # <<>> =>
             LET level == FetchedRecord.level
                 status == result[1].status
                 childError == \E i \in DOMAIN result[1].spans :
                                   result[1].spans[i].status = "ERROR"
             IN  /\ status \in {"OK", "ERROR", "UNSET"}
                 /\ level = "ERROR" => status = "ERROR"
                 /\ (level \in {"DEFAULT", "WARNING"} /\ childError) => status = "ERROR"
                 /\ (level \in {"DEFAULT", "WARNING"} /\ ~childError) => status = "OK"
                 /\ (level \notin {"ERROR", "DEFAULT", "WARNING"} /\ ~childError)
                      => status = "UNSET"

\* C4 witness: a trace of level WARNING with a span in ERROR and a span not
\* in ERROR was converted to status ERROR.
C4_Witness ==
    /\ Returned("get_trace")
    /\ result # <<>>
    /\ FetchedRecord.level = "WARNING"
    /\ Len(result[1].spans) = 2
    /\ result[1].spans[1].status = "OK"
    /\ result[1].spans[2].status = "ERROR"
    /\ result[1].status = "ERROR"

\* Every TraceData a call returned (search_traces: the list; get_trace: the
\* trace, if any).
ReturnedTraces ==
    IF Returned("search_traces") \/ Returned("get_trace") THEN result ELSE <<>>

\* C5: a TraceData converted from a record with no usable span records (no
\* observations, or every observation failed to convert) has exactly one
\* span, whose trace_id and span_id are the trace's trace_id and whose
\* parent_span_id is None; no TraceData returned by search_traces or
\* get_trace has zero spans.
C5_SynthesizedRootSpan ==
    /\ \A i \in DOMAIN ReturnedTraces : Len(ReturnedTraces[i].spans) >= 1
    /\ \A i \in DOMAIN ReturnedTraces :
         (\/ op = "search_traces"
          \/ \A k \in DOMAIN FetchedObservations : FetchedObservations[k].level = Missing)
         => /\ Len(ReturnedTraces[i].spans) = 1
            /\ ReturnedTraces[i].spans[1].trace_id = ReturnedTraces[i].trace_id
            /\ ReturnedTraces[i].spans[1].span_id = ReturnedTraces[i].trace_id
            /\ ReturnedTraces[i].spans[1].parent_span_id = NoneStr

\* C5 witness: get_trace was given observations, none of which converted,
\* and returned a TraceData with the one synthesized span.
C5_Witness ==
    /\ Returned("get_trace")
    /\ result # <<>>
    /\ FetchedObservations # <<>>
    /\ \A k \in DOMAIN FetchedObservations : FetchedObservations[k].level = Missing
    /\ Len(result[1].spans) = 1
    /\ result[1].spans[1].span_id = arg

\* The records of an answer whose conversion does not raise, in order.
ValidRecords(data) == SelectSeq(data, LAMBDA r : ~convert_trace_raises(r, <<>>))

\* C6: when search_traces applies no client-side filter and exactly one of
\* the records the backend returned fails to convert, search_traces returns
\* (it does not raise) exactly the traces of the other records, in backend
\* order.
C6_PerRecordIsolation ==
    (/\ op = "search_traces"
     /\ calls[1].answer.ok
     /\ client_filters(get_all_filters(arg)) = <<>>
     /\ Len(ValidRecords(ListedRecords)) = Len(ListedRecords) - 1)
    => /\ outcome = "return"
       /\ Len(result) = Len(ListedRecords) - 1
       /\ \A i \in DOMAIN result : result[i].trace_id = ValidRecords(ListedRecords)[i].id

\* C6 witness: four records, the last of them malformed, gave the three
\* traces of the others.
C6_Witness ==
    /\ Returned("search_traces")
    /\ Len(ListedRecords) = 4
    /\ ListedRecords[4].level = Missing
    /\ Len(result) = 3
    /\ result[1].trace_id = ListedRecords[1].id
    /\ result[3].trace_id = ListedRecords[3].id

\* C7: in search_traces, search_spans, get_trace, list_services and
\* get_service_operations a failed remote call ends the operation in that
\* call's error (never a normal result), the failed call is the last call
\* issued, and no call is issued twice.
C7_NoRetryNoMasking ==
    op \in {"search_traces", "search_spans", "get_trace", "list_services",
            "get_service_operations"} =>
        /\ \A i \in DOMAIN calls :
             ~calls[i].answer.ok =>
                /\ outcome = calls[i].answer.err
                /\ outcome # "return"
                /\ i = Len(calls)
        /\ \A i \in DOMAIN calls : \A j \in DOMAIN calls :
             i # j => calls[i].api # calls[j].api
        /\ outcome = "return" => \A i \in DOMAIN calls : calls[i].answer.ok

\* C7 witness: get_trace whose trace fetch failed ended in that error after
\* the one call.
C7_Witness ==
    /\ op = "get_trace"
    /\ Len(calls) = 1
    /\ ~calls[1].answer.ok
    /\ outcome = "ApiError"


\* C8 (as claimed): every get_trace call ends in one of three ways: it
\* returns a TraceData whose trace_id is the requested id, it fails with the
\* backend's not-found error, or it fails with another backend error; it
\* never returns None.
C8_GetTraceOutcomes ==
    op = "get_trace" =>
        \/ outcome = "return" /\ result # <<>> /\ result[1].trace_id = arg
        \/ outcome = "NotFoundError"
        \/ outcome \in BackendErrors \ {"NotFoundError"}

\* C9: health_check always returns: a HealthCheckResponse naming backend
\* "langfuse" and the adapter's url, after exactly one probe call asking for
\* one record; status is "healthy" with no error exactly when the probe
\* succeeded and "unhealthy" with the probe's failure as error exactly when
\* it failed.
C9_HealthCheckNeverRaises ==
    op = "health_check" =>
        /\ outcome = "return"
        /\ result.backend = "langfuse"
        /\ result.url = adapter.url
        /\ Len(calls) = 1
        /\ calls[1].api = "trace.list"
        /\ calls[1].params.limit = <<1>>
        /\ result.status \in {"healthy", "unhealthy"}
        /\ calls[1].answer.ok <=> (result.status = "healthy" /\ result.error = NoneStr)
        /\ ~calls[1].answer.ok <=>
              (result.status = "unhealthy" /\ result.error = calls[1].answer.err)

\* C9 witness: the probe failed and health_check returned unhealthy with the
\* failure in error.
C9_Witness ==
    /\ Returned("health_check")
    /\ ~calls[1].answer.ok
    /\ result.status = "unhealthy"
    /\ result.error = "ApiError"

\* C10: search_traces asks the backend for min(query.limit, 100) records,
\* fails only when the remote call failed, and, the backend honouring the
\* limit, returns at most 100 traces.
C10_LimitClamped ==
    op = "search_traces" =>
        /\ calls[1].params.limit =
             << IF arg.limit <= 100 THEN arg.limit ELSE 100 >>
        /\ outcome # "return" => ~calls[1].answer.ok
        /\ outcome = "return" => Len(result) <= 100

\* C10 witness: a query with limit 500 returned the 100 traces of the 100
\* records the backend was asked for.
C10_Witness ==
    /\ Returned("search_traces")
    /\ arg.limit = 500
    /\ calls[1].params.limit = <<100>>
    /\ Len(ListedRecords) = 100
    /\ Len(result) = 100


\* C11: the trace-list call search_traces issues (directly, or on behalf of
\* search_spans) always carries from_timestamp: the query's start_time
\* unchanged when it has one, the current time minus 24 hours (one day)
\* otherwise.
C11_LowerTimeBound ==
    op \in {"search_traces", "search_spans"} =>
        /\ Len(calls) = 1
        /\ calls[1].api = "trace.list"
        /\ calls[1].params.from_timestamp # <<>>
        /\ arg.start_time # <<>> => calls[1].params.from_timestamp = arg.start_time
        /\ arg.start_time = <<>> => calls[1].params.from_timestamp = << now - 1 >>

\* C11 witness: a query without start_time, handled when the clock read 2,
\* asked for the traces from time 1 on.
C11_Witness ==
    /\ op = "search_traces"
    /\ arg.start_time = <<>>
    /\ now = 2
    /\ calls[1].params.from_timestamp = <<1>>


\* The observations of an answer reference each other consistently: each
\* parent_observation_id is None, the trace's id, or the id of another
\* observation of the same answer.
ParentClosed(observations, trace_id) ==
    \A i \in DOMAIN observations :
        \/ observations[i].parent_observation_id \in {NoneStr, trace_id}
        \/ \E k \in DOMAIN observations :
              k # i /\ observations[k].id = observations[i].parent_observation_id

\* C12 (as claimed): in every TraceData returned by get_trace or
\* search_traces each span's trace_id is the TraceData's trace_id and each
\* span's parent_span_id is None, the trace's id, or the span_id of another
\* span of the same TraceData, also when an observation that failed to
\* convert was dropped (the backend's observations being consistent).
C12_ReferentialIntegrity ==
    \A t \in DOMAIN ReturnedTraces :
        (op = "get_trace" => ParentClosed(FetchedObservations, arg)) =>
            \A i \in DOMAIN ReturnedTraces[t].spans :
                LET td == ReturnedTraces[t]
                    span == td.spans[i]
                IN  /\ span.trace_id = td.trace_id
                    /\ \/ span.parent_span_id \in {NoneStr, td.trace_id}
                       \/ \E k \in DOMAIN td.spans :
                             k # i /\ td.spans[k].span_id = span.parent_span_id


\* A well-formed trace record: it has a level (None included) and its
\* latency under one of the attribute names latency_ms, latency, duration.
WellFormed(r) ==
    r.level # Missing /\ r.lat.attr \in {"latency_ms", "latency", "duration"}

\* The record's latency in milliseconds, as the claim states it.
LatencyMs(r) == IF r.lat.attr = "latency_ms" THEN r.lat.val ELSE r.lat.val * 1000

\* td is the conversion of record r as the claim describes it.
RoundTrips(r, td) ==
    /\ td.trace_id = r.id
    /\ td.status = determine_trace_status(r.level, td.spans)
    /\ td.duration_ms = LatencyMs(r)

\* C13 (as claimed): every well-formed trace record converts to a TraceData
\* (it is not dropped) whose trace_id is the record's id, whose status is
\* the status derived from the record's level and the spans, and whose
\* duration_ms is the record's latency in milliseconds: search_traces
\* without client-side filters returns one such TraceData per well-formed
\* record, in order, and get_trace of a well-formed record returns one.
C13_ConversionRoundTrip ==
    /\ (Returned("search_traces") /\ client_filters(get_all_filters(arg)) = <<>>) =>
          LET wf == SelectSeq(ListedRecords, WellFormed)
          IN  /\ Len(result) = Len(wf)
              /\ \A i \in DOMAIN result : RoundTrips(wf[i], result[i])
    /\ (Returned("get_trace") /\ WellFormed(FetchedRecord)) =>
          /\ result # <<>>
          /\ RoundTrips(FetchedRecord, result[1])


\* The answers the backend gave to the remote calls of flight f.
OwnAnswers(f) == [i \in DOMAIN f.calls |-> f.calls[i].answer]

\* How the call ends when it runs alone on the adapter and the backend gives
\* these answers to its remote calls (the handlers of Spec).
RunAlone(name, argument, answers, url) ==
    LET ends(answer, value) ==
            [outcome |-> IF answer.ok THEN "return" ELSE answer.err,
             result |-> IF answer.ok THEN value ELSE <<>>]
    IN  CASE name = "search_traces" ->
               ends(answers[1], search_traces_result(argument, answers[1].data))
          [] name = "search_spans" ->
               ends(answers[1],
                    search_spans_result(argument,
                        search_traces_result(span_trace_query(argument),
                                             answers[1].data)))
          [] name = "get_trace" ->
               IF answers[1].ok
               THEN ends(answers[2],
                         convert_langfuse_trace_to_trace(answers[1].data[1],
                                                         answers[2].data))
               ELSE ends(answers[1], <<>>)
          [] name = "list_services" -> ends(answers[1], service_names(answers[1].data))
          [] name = "get_service_operations" ->
               ends(answers[1], operation_names(answers[1].data))
          [] name = "health_check" ->
               [outcome |-> "return", result |-> health_check_result(answers[1], url)]

\* C14: whatever calls are in flight on the adapter and however their steps
\* interleave, the adapter keeps the url, keys, timeout and client it was
\* constructed with, the first remote call of every call in flight is the
\* one its own arguments give, and every call that ended has the outcome
\* and the result of that call run alone with the answers the backend gave
\* to its own remote calls.
C14_QueryIsolation ==
    /\ adapter = [url |-> "https://cloud.langfuse.com", public_key |-> "pk-lf-1",
                  secret_key |-> "sk-lf-1", api_key |-> "sk-lf-1", timeout |-> 30,
                  client |-> "Langfuse#1"]
    /\ \A p \in DOMAIN flights :
         LET f == flights[p]
         IN  /\ f.pc # "idle" =>
                  [f.calls[1] EXCEPT !.answer = Pending] = first_call(f.op, f.arg, now)
             /\ f.pc = "done" =>
                  LET alone == RunAlone(f.op, f.arg, OwnAnswers(f), adapter.url)
                  IN  f.outcome = alone.outcome /\ f.result = alone.result

\* Two calls ended side by side on the adapter, their trace.list calls
\* answered differently: a search that returned a trace, a listing that
\* raised.
C14_Witness ==
    /\ flights[1].pc = "done" /\ flights[1].op = "search_traces"
    /\ flights[1].outcome = "return" /\ Len(flights[1].result) = 1
    /\ flights[2].pc = "done" /\ flights[2].op = "list_services"
    /\ flights[2].outcome = "ApiError"
    /\ flights[1].calls[1].answer # flights[2].calls[1].answer

====
